---- MODULE Spec2Model ----
(***************************************************************************)
(* Verification model of three units of the engine:                        *)
(*   - pc.VrManager   (src/src/vr/vr-manager.js): the display registry     *)
(*   - CurveSet       (src/unnamed/part_000): get and quantize             *)
(*   - Color          (src/src/core/color.ts): toString and fromString     *)
(* Each unit has its own specification (VrSpec, CurveSpec, ColorSpec); the *)
(* variables of the other units are held constant.                         *)
(***************************************************************************)
EXTENDS Integers, Sequences, FiniteSets, TLC

VARIABLES
    pc,           \* "new" before `new pc.VrManager(app)`, "constructed" after
    supported,    \* navigator.getVRDisplays exists
    index,        \* this._index  : displayId -> wrapper | Null
    displays,     \* this.displays: ordered list of wrappers
    display,      \* this.display : primary wrapper | Null
    attached,     \* window listeners for vrdisplayconnect/vrdisplaydisconnect
    enum,         \* state of the promise returned by navigator.getVRDisplays()
    listeners,    \* event names the caller has subscribed to on the manager
    fired,        \* log of this.fire(name, arg), with whether a listener heard it
    destroyCalls, \* log of wrapper.destroy() calls
    nextWid,      \* identity given to the next `new pc.VrDisplay`
    notified,     \* number of platform notifications raised so far
    last,         \* the last operation that ran, with its argument
    curves,       \* CurveSet.curves
    curveOp,      \* last CurveSet operation and its argument
    curveResult,  \* its result
    color,        \* Color (r, g, b, a), numerators over ChannelSteps
    colorStr,     \* result of toString(true)
    colorBack,    \* result of fromString(colorStr), as bytes (x / 255)
    colorPc       \* position in the toString -> fromString round trip

vrVars == <<pc, supported, index, displays, display, attached, enum, listeners,
            fired, destroyCalls, nextWid, notified, last>>
curveVars == <<curves, curveOp, curveResult>>
colorVars == <<color, colorStr, colorBack, colorPc>>
vars == <<vrVars, curveVars, colorVars>>

(***************************************************************************)
(* Bounds                                                                  *)
(***************************************************************************)
NumIds == 3
MaxNotifications == 3
MaxCurves == 2
MaxPrecision == 50
ChannelSteps == 765

\* JS null / undefined where a wrapper is expected
Null == [wid |-> 0, id |-> 0]
NoError == ""
NoLast == [op |-> "none", id |-> 0, list |-> <<>>]
Ids == 1..NumIds

\* new Curve(): the k-th curve object of the set
Curve(k) == [curve |-> k]
Undefined == [curve |-> 0]
\* nothing has been called on the curve set yet
NoCurveOp == [op |-> "none", arg |-> 0]
NoResult == [kind |-> "none", curve |-> Undefined, values |-> <<>>]
EventNames == {"error", "ready", "displayconnect", "displaydisconnect"}

RECURSIVE SeqsUpTo(_, _)
SeqsUpTo(S, n) ==
    IF n = 0 THEN {<<>>}
    ELSE LET shorter == SeqsUpTo(S, n - 1)
         IN shorter \cup {Append(s, x) : s \in shorter, x \in S}

\* what navigator.getVRDisplays() can resolve with: each display once
DisplayLists ==
    {s \in SeqsUpTo(Ids, NumIds) :
        \A i, j \in 1..Len(s) : i # j => s[i] # s[j]}

\* the units a specification does not exercise
NoManager ==
    /\ pc = "new"
    /\ supported = FALSE
    /\ index = [i \in Ids |-> Null]
    /\ displays = <<>>
    /\ display = Null
    /\ attached = FALSE
    /\ enum = "none"
    /\ listeners = {}
    /\ fired = <<>>
    /\ destroyCalls = <<>>
    /\ nextWid = 1
    /\ notified = 0
    /\ last = NoLast

NoCurveSet ==
    /\ curves = <<>>
    /\ curveOp = NoCurveOp
    /\ curveResult = NoResult

NoColor ==
    /\ color = <<0, 0, 0, 0>>
    /\ colorStr = <<>>
    /\ colorBack = <<>>
    /\ colorPc = "idle"

(***************************************************************************)
(* pc.VrManager                                                            *)
(***************************************************************************)

\* new pc.VrDisplay(app, vrDisplay): a fresh wrapper whose id is the
\* platform display's displayId
VrDisplay(wid, vrDisplay) == [wid |-> wid, id |-> vrDisplay]

\* this.fire(name, arg): delivered to the handlers subscribed at that moment
fire(m, name, arg) ==
    [m EXCEPT !.fired = Append(@, [name |-> name, arg |-> arg,
                                   heard |-> name \in listeners])]

\* the payloads: an Error, one wrapper, or the display list
ErrorArg(err) == [err |-> err, display |-> Null, displays |-> <<>>]
DisplayArg(d) == [err |-> NoError, display |-> d, displays |-> <<>>]
ListArg(list) == [err |-> NoError, display |-> Null, displays |-> list]

\* the manager object, as the handlers see it
Self ==
    [index |-> index, displays |-> displays, display |-> display,
     attached |-> attached, fired |-> fired, destroyCalls |-> destroyCalls,
     nextWid |-> nextWid]

Store(m) ==
    /\ index' = m.index
    /\ displays' = m.displays
    /\ display' = m.display
    /\ attached' = m.attached
    /\ fired' = m.fired
    /\ destroyCalls' = m.destroyCalls
    /\ nextWid' = m.nextWid

\* Array.prototype.indexOf: 0-based position of the first match, or -1
indexOf(s, x) ==
    IF \E i \in 1..Len(s) : s[i] = x
    THEN (CHOOSE i \in 1..Len(s) : s[i] = x /\ \A j \in 1..(i - 1) : s[j] # x) - 1
    ELSE -1

\* Array.prototype.splice(ind, 1): a negative ind counts from the end
splice1(s, ind) ==
    LET start == IF ind < 0 THEN (IF Len(s) + ind < 0 THEN 0 ELSE Len(s) + ind)
                 ELSE (IF ind > Len(s) THEN Len(s) ELSE ind)
    IN [i \in 1..(IF start < Len(s) THEN Len(s) - 1 ELSE Len(s)) |->
            IF i <= start THEN s[i] ELSE s[i + 1]]

_addDisplay_noGuard(m, vrDisplay) ==
    LET d == VrDisplay(m.nextWid, vrDisplay)
        m1 == [m EXCEPT !.index[d.id] = d,
                        !.displays = Append(@, d),
                        !.display = IF @ = Null THEN d ELSE @,
                        !.nextWid = @ + 1]
    IN fire(m1, "displayconnect", DisplayArg(d))

_addDisplay(m, vrDisplay) ==
    IF m.index[vrDisplay] # Null
    THEN m
    ELSE LET d == VrDisplay(m.nextWid, vrDisplay)
             m1 == [m EXCEPT !.index[d.id] = d,
                             !.displays = Append(@, d),
                             !.display = IF @ = Null THEN d ELSE @,
                             !.nextWid = @ + 1]
         IN fire(m1, "displayconnect", DisplayArg(d))

_onDisplayConnect(m, e) == _addDisplay(m, e)

_onDisplayDisconnect_keepPrimary(m, e) ==
    LET d == m.index[e]
    IN IF d = Null
       THEN m
       ELSE LET m1 == [m EXCEPT !.destroyCalls = Append(@, d),
                                !.index[d.id] = Null,
                                !.displays = splice1(@, indexOf(@, d))]
            IN fire(m1, "displaydisconnect", DisplayArg(d))

_onDisplayDisconnect_spliceFirst(m, e) ==
    LET d == m.index[e]
    IN IF d = Null
       THEN m
       ELSE LET m1 == [m EXCEPT !.destroyCalls = Append(@, d),
                                !.index[d.id] = Null,
                                !.displays = splice1(@, 0)]
                m2 == [m1 EXCEPT !.display =
                          IF @ = d
                          THEN (IF Len(m1.displays) > 0 THEN m1.displays[1] ELSE Null)
                          ELSE @]
            IN fire(m2, "displaydisconnect", DisplayArg(d))

_onDisplayDisconnect_always(m, e) ==
    LET d == IF m.index[e] = Null THEN VrDisplay(0, e) ELSE m.index[e]
        m1 == [m EXCEPT !.destroyCalls = Append(@, d),
                        !.index[d.id] = Null,
                        !.displays = splice1(@, indexOf(@, d))]
        m2 == [m1 EXCEPT !.display =
                  IF @ = d
                  THEN (IF Len(m1.displays) > 0 THEN m1.displays[1] ELSE Null)
                  ELSE @]
    IN fire(m2, "displaydisconnect", DisplayArg(d))

_onDisplayDisconnect(m, e) ==
    LET d == m.index[e]
    IN IF d = Null
       THEN m
       ELSE LET m1 == [m EXCEPT !.destroyCalls = Append(@, d),
                                !.index[d.id] = Null,
                                !.displays = splice1(@, indexOf(@, d))]
                m2 == [m1 EXCEPT !.display =
                          IF @ = d
                          THEN (IF Len(m1.displays) > 0 THEN m1.displays[1] ELSE Null)
                          ELSE @]
            IN fire(m2, "displaydisconnect", DisplayArg(d))

_attach(m) == [m EXCEPT !.attached = TRUE]

_detach(m) == [m EXCEPT !.attached = FALSE]

destroy_keepListeners(m) == m

destroy(m) == _detach(m)

RECURSIVE addEach(_, _)
addEach(m, list) ==
    IF list = <<>> THEN m
    ELSE addEach(_addDisplay(m, Head(list)), Tail(list))

\* the callback the constructor hands to _getDisplays
getDisplaysCallback_readyFirst(m, err, list) ==
    IF err # NoError
    THEN fire(m, "error", ErrorArg(err))
    ELSE addEach(fire(m, "ready", ListArg(m.displays)), list)

getDisplaysCallback_unlessDestroyed(m, err, list) ==
    IF err # NoError
    THEN fire(m, "error", ErrorArg(err))
    ELSE IF ~m.attached
    THEN m
    ELSE LET m1 == addEach(m, list)
         IN fire(m1, "ready", ListArg(m1.displays))

getDisplaysCallback(m, err, list) ==
    IF err # NoError
    THEN fire(m, "error", ErrorArg(err))
    ELSE LET m1 == addEach(m, list)
         IN fire(m1, "ready", ListArg(m1.displays))

VrIdle ==
    /\ UNCHANGED curveVars
    /\ UNCHANGED colorVars

VrInit ==
    /\ pc = "new"
    /\ supported \in BOOLEAN
    /\ index = [i \in Ids |-> Null]
    /\ displays = <<>>
    /\ display = Null
    /\ attached = FALSE
    /\ enum = "none"
    /\ listeners = {}
    /\ fired = <<>>
    /\ destroyCalls = <<>>
    /\ nextWid = 1
    /\ notified = 0
    /\ last = NoLast
    /\ NoCurveSet
    /\ NoColor

\* new pc.VrManager(app): without navigator.getVRDisplays, _getDisplays calls
\* the callback with the error before the constructor returns
Construct ==
    /\ pc = "new"
    /\ pc' = "constructed"
    /\ LET m0 == [index |-> [i \in Ids |-> Null], displays |-> <<>>,
                  display |-> Null, attached |-> FALSE, fired |-> fired,
                  destroyCalls |-> destroyCalls, nextWid |-> nextWid]
           m1 == _attach(m0)
       IN IF supported
          THEN /\ Store(m1)
               /\ enum' = "pending"
          ELSE /\ Store(getDisplaysCallback(m1, "WebVR not supported", <<>>))
               /\ enum' = "none"
    /\ last' = [NoLast EXCEPT !.op = "construct"]
    /\ UNCHANGED <<supported, listeners, notified>>
    /\ VrIdle

\* the caller, holding the constructed manager, registers its handlers:
\* manager.on(name, handler) for each event, in one synchronous block
Subscribe ==
    /\ pc = "constructed"
    /\ listeners # EventNames
    /\ listeners' = EventNames
    /\ last' = [NoLast EXCEPT !.op = "on"]
    /\ UNCHANGED <<pc, supported, index, displays, display, attached, enum,
                   fired, destroyCalls, nextWid, notified>>
    /\ VrIdle

\* navigator.getVRDisplays() resolves with `list`
GetDisplaysResolved(list) ==
    /\ enum = "pending"
    /\ enum' = "resolved"
    /\ Store(getDisplaysCallback(Self, NoError, list))
    /\ last' = [NoLast EXCEPT !.op = "resolved", !.list = list]
    /\ UNCHANGED <<pc, supported, listeners, notified>>
    /\ VrIdle

\* navigator.getVRDisplays() rejects: .then() has no rejection handler
GetDisplaysRejected ==
    /\ enum = "pending"
    /\ enum' = "rejected"
    /\ last' = [NoLast EXCEPT !.op = "rejected"]
    /\ UNCHANGED <<pc, supported, index, displays, display, attached, listeners,
                   fired, destroyCalls, nextWid, notified>>
    /\ VrIdle

\* the platform raises 'vrdisplayconnect' on window
VrDisplayConnect(id) ==
    /\ pc = "constructed"
    /\ supported
    /\ notified < MaxNotifications
    /\ notified' = notified + 1
    /\ Store(IF attached THEN _onDisplayConnect(Self, id) ELSE Self)
    /\ last' = [NoLast EXCEPT !.op = "vrdisplayconnect", !.id = id]
    /\ UNCHANGED <<pc, supported, enum, listeners>>
    /\ VrIdle

\* the platform raises 'vrdisplaydisconnect' on window
VrDisplayDisconnect(id) ==
    /\ pc = "constructed"
    /\ supported
    /\ notified < MaxNotifications
    /\ notified' = notified + 1
    /\ Store(IF attached THEN _onDisplayDisconnect(Self, id) ELSE Self)
    /\ last' = [NoLast EXCEPT !.op = "vrdisplaydisconnect", !.id = id]
    /\ UNCHANGED <<pc, supported, enum, listeners>>
    /\ VrIdle

\* manager.destroy()
Destroy ==
    /\ pc = "constructed"
    /\ attached
    /\ Store(destroy(Self))
    /\ last' = [NoLast EXCEPT !.op = "destroy"]
    /\ UNCHANGED <<pc, supported, enum, listeners, notified>>
    /\ VrIdle

VrNext ==
    \/ Construct
    \/ Subscribe
    \/ \E list \in DisplayLists : GetDisplaysResolved(list)
    \/ GetDisplaysRejected
    \/ \E id \in Ids : VrDisplayConnect(id)
    \/ \E id \in Ids : VrDisplayDisconnect(id)
    \/ Destroy

VrSpec == VrInit /\ [][VrNext]_vars


(***************************************************************************)
(* IEEE 754 binary64 arithmetic, as far as quantize uses it: the quotient  *)
(* of two small positive integers and the product of a double with a small *)
(* non-negative integer, both rounded to nearest, ties to even.            *)
(* A positive double is [exp, m1, m2, m3]: its 53-bit significand is       *)
(* m1 * Limb^2 + m2 * Limb + m3 (the leading bit set), its value           *)
(* significand * 2^(exp - 52).  Zero is the record of zeros.               *)
(***************************************************************************)
SignificandBits == 53
LimbBits == 18
Limb == 2 ^ LimbBits

Zero == [exp |-> 0, m1 |-> 0, m2 |-> 0, m3 |-> 0]
One == [exp |-> 0, m1 |-> 2 ^ (SignificandBits - 1 - 2 * LimbBits), m2 |-> 0, m3 |-> 0]

RECURSIVE BitLength(_)
BitLength(n) == IF n = 0 THEN 0 ELSE 1 + BitLength(n \div 2)

\* number of bits of the natural x0 * Limb^3 + x1 * Limb^2 + x2 * Limb + x3
BitLength4(x) ==
    IF x[1] # 0 THEN 3 * LimbBits + BitLength(x[1])
    ELSE IF x[2] # 0 THEN 2 * LimbBits + BitLength(x[2])
    ELSE IF x[3] # 0 THEN LimbBits + BitLength(x[3])
    ELSE BitLength(x[4])

\* x + n * Limb^0, carries propagated (n < Limb)
AddLow(x, n) ==
    LET s3 == x[4] + n
        s2 == x[3] + s3 \div Limb
        s1 == x[2] + s2 \div Limb
        s0 == x[1] + s1 \div Limb
    IN <<s0, s1 % Limb, s2 % Limb, s3 % Limb>>

\* x shifted right by s bits, 0 <= s < LimbBits
ShiftRight(x, s) ==
    LET lowOf(n) == (n % (2 ^ s)) * 2 ^ (LimbBits - s)
    IN <<x[1] \div 2 ^ s,
         x[2] \div 2 ^ s + lowOf(x[1]),
         x[3] \div 2 ^ s + lowOf(x[2]),
         x[4] \div 2 ^ s + lowOf(x[3])>>

\* the double nearest to x * 2^unit (ties to even), where x is a four-limb
\* natural of at least 53 and at most 53 + LimbBits - 1 bits and `sticky`
\* tells that the exact value lies strictly above x * 2^unit
RoundToDouble(x, sticky, unit) ==
    LET nbits == BitLength4(x)
        s == nbits - SignificandBits
        low == x[4] % (2 ^ s)
        half == IF s = 0 THEN 1 ELSE 2 ^ (s - 1)
        odd == (x[4] \div 2 ^ s) % 2 = 1
        up == /\ s > 0
              /\ \/ low > half
                 \/ low = half /\ (sticky \/ odd)
        x1 == AddLow(<<x[1], x[2], x[3], x[4] - low>>, IF up THEN 2 ^ s ELSE 0)
        carried == BitLength4(x1) > nbits
        m == ShiftRight(x1, IF carried THEN s + 1 ELSE s)
    IN [exp |-> unit + nbits - 1 + (IF carried THEN 1 ELSE 0),
        m1 |-> m[2], m2 |-> m[3], m3 |-> m[4]]

\* n / d in double arithmetic, for integers 0 < n, d < 2^12
Divide(n, d) ==
    LET RECURSIVE Shift(_)
        Shift(t) == IF n * 2 ^ t >= d THEN t ELSE Shift(t + 1)
        RECURSIVE Down(_)
        Down(t) == IF n < d * 2 ^ (t + 1) THEN t ELSE Down(t + 1)
        up == IF n >= d THEN Down(0) ELSE 0
        t == IF n >= d THEN 0 ELSE Shift(0)
        \* scaled numerator a with 1 <= a / dd < 2
        a == n * 2 ^ t
        dd == d * 2 ^ up
        q1 == (a * 2 ^ (LimbBits - 1)) \div dd
        r1 == (a * 2 ^ (LimbBits - 1)) % dd
        q2 == (r1 * Limb) \div dd
        r2 == (r1 * Limb) % dd
        q3 == (r2 * Limb) \div dd
        r3 == (r2 * Limb) % dd
    IN RoundToDouble(<<0, q1, q2, q3>>, r3 # 0, up - t - SignificandBits)

\* x * i in double arithmetic, for a double x >= 0 and an integer 0 <= i < 2^12
Multiply(x, i) ==
    IF x = Zero \/ i = 0 THEN Zero
    ELSE LET p3 == x.m3 * i
             p2 == x.m2 * i + p3 \div Limb
             p1 == x.m1 * i + p2 \div Limb
             p0 == p1 \div Limb
         IN RoundToDouble(<<p0, p1 % Limb, p2 % Limb, p3 % Limb>>, FALSE,
                          x.exp - (SignificandBits - 1))

(***************************************************************************)
(* CurveSet                                                                *)
(***************************************************************************)


\* CurveEvaluator.evaluate(time) on a fresh evaluator of `curve`: the value
\* of that curve at that time (as stored in a Float32Array slot)
evaluate(curve, time) == [of |-> curve, time |-> time]

\* the initial content of a Float32Array slot
Float32Zero == [of |-> Undefined, time |-> Zero]

Returned(c) == [kind |-> IF c = Undefined THEN "undefined" ELSE "curve",
                curve |-> c, values |-> <<>>]
ReturnedTable(v) == [kind |-> "table", curve |-> Undefined, values |-> v]

\* this.curves[index] for an integer index: the element, or undefined
get(cs, ind) ==
    IF 0 <= ind /\ ind < Len(cs) THEN cs[ind + 1] ELSE Undefined

Max(a, b) == IF a >= b THEN a ELSE b

\* the slot written by iteration (c, i) of quantize's loops
slot(i, numCurves, c) == i * numCurves + c

\* quantize's two loops (c outer, i inner) over a zero-filled Float32Array:
\* every slot holds what the last iteration that wrote it stored, or zero
quantize(cs, p) ==
    LET precision == Max(p, 2)
        numCurves == Len(cs)
        step == Divide(1, precision - 1)
        iterations == (0..(numCurves - 1)) \X (0..(precision - 1))
        writers(k) == {it \in iterations : slot(it[2], numCurves, it[1]) = k}
        lastOf(w) == CHOOSE it \in w : \A o \in w :
                         o[1] < it[1] \/ (o[1] = it[1] /\ o[2] <= it[2])
    IN [k \in 1..(precision * numCurves) |->
           IF writers(k - 1) = {} THEN Float32Zero
           ELSE LET it == lastOf(writers(k - 1))
                IN evaluate(cs[it[1] + 1], Multiply(step, it[2]))]

CurveIdle ==
    /\ UNCHANGED vrVars
    /\ UNCHANGED colorVars

\* a curve set as the constructor leaves it: new CurveSet(n)
CurveInit ==
    /\ \E n \in 0..MaxCurves : curves = [k \in 1..n |-> Curve(k)]
    /\ curveOp = NoCurveOp
    /\ curveResult = NoResult
    /\ NoManager
    /\ NoColor

Get(ind) ==
    /\ curveOp' = [op |-> "get", arg |-> ind]
    /\ curveResult' = Returned(get(curves, ind))
    /\ UNCHANGED curves
    /\ CurveIdle

Quantize(p) ==
    /\ curveOp' = [op |-> "quantize", arg |-> p]
    /\ curveResult' = ReturnedTable(quantize(curves, p))
    /\ UNCHANGED curves
    /\ CurveIdle

CurveNext ==
    \/ \E ind \in -1..MaxCurves : Get(ind)
    \/ \E p \in 1..MaxPrecision : Quantize(p)

CurveSpec == CurveInit /\ [][CurveNext]_vars

(***************************************************************************)
(* Color                                                                   *)
(* A channel is k / ChannelSteps with 0 <= k <= ChannelSteps; a string is  *)
(* the sequence of its characters; the integer parseInt returns is kept as *)
(* the sequence of its base-16 digits, most significant first.             *)
(***************************************************************************)
HexDigits == <<"0", "1", "2", "3", "4", "5", "6", "7",
               "8", "9", "a", "b", "c", "d", "e", "f">>

\* Math.round(channel * 255): the nearest integer, halves upwards
round255(k) == (2 * 255 * k + ChannelSteps) \div (2 * ChannelSteps)

\* Number.prototype.toString(16) of a non-negative integer
RECURSIVE toString16(_)
toString16(n) ==
    IF n < 16 THEN <<HexDigits[n + 1]>>
    ELSE Append(toString16(n \div 16), HexDigits[(n % 16) + 1])

\* this.a < 16 / 255
belowSixteen(k) == 255 * k < 16 * ChannelSteps

toString(c, alpha) ==
    LET s == <<"#">> \o Tail(toString16(2 ^ 24 + round255(c[1]) * 2 ^ 16
                                        + round255(c[2]) * 2 ^ 8 + round255(c[3])))
        a == toString16(round255(c[4]))
    IN IF alpha
       THEN (IF belowSixteen(c[4]) THEN s \o <<"0">> \o a ELSE s \o a)
       ELSE s

\* parseInt(hex.replace('#', '0x'), 16): the digits up to the first
\* character that is not a hex digit
DigitValue(ch) == (CHOOSE v \in 1..16 : HexDigits[v] = ch) - 1
IsHexDigit(ch) == \E v \in 1..16 : HexDigits[v] = ch

RECURSIVE parseDigits(_)
parseDigits(str) ==
    IF str = <<>> \/ ~IsHexDigit(Head(str)) THEN <<>>
    ELSE <<DigitValue(Head(str))>> \o parseDigits(Tail(str))

parseInt16(hex) ==
    IF hex # <<>> /\ Head(hex) = "#" THEN parseDigits(Tail(hex)) ELSE parseDigits(hex)

\* (i >> shift) & 0xff on the base-16 digits of i, shift a multiple of 8
byteAt(digits, shift) ==
    LET n == Len(digits)
        at(pos) == IF pos < n THEN digits[n - pos] ELSE 0
    IN 16 * at(shift \div 4 + 1) + at(shift \div 4)

\* math.intToBytes32 and math.intToBytes24
intToBytes32(i) == <<byteAt(i, 24), byteAt(i, 16), byteAt(i, 8), byteAt(i, 0)>>
intToBytes24(i) == <<byteAt(i, 16), byteAt(i, 8), byteAt(i, 0)>>

\* the channels fromString sets, as numerators over 255
fromString(hex) ==
    LET i == parseInt16(hex)
    IN IF Len(hex) > 7 THEN intToBytes32(i)
       ELSE intToBytes24(i) \o <<255>>

ColorIdle ==
    /\ UNCHANGED vrVars
    /\ UNCHANGED curveVars

ChannelSamples == {0, ChannelSteps \div 3, ChannelSteps}

ColorInit ==
    /\ color \in ChannelSamples \X ChannelSamples \X ChannelSamples \X (0..ChannelSteps)
    /\ colorStr = <<>>
    /\ colorBack = <<>>
    /\ colorPc = "new"
    /\ NoManager
    /\ NoCurveSet

ColorToString(alpha) ==
    /\ colorPc = "new"
    /\ colorStr' = toString(color, alpha)
    /\ colorPc' = IF alpha THEN "toStringAlpha" ELSE "toString"
    /\ UNCHANGED <<color, colorBack>>
    /\ ColorIdle

ColorFromString ==
    /\ colorPc \in {"toString", "toStringAlpha"}
    /\ colorBack' = fromString(colorStr)
    /\ colorPc' = IF colorPc = "toStringAlpha" THEN "fromStringAlpha" ELSE "fromString"
    /\ UNCHANGED <<color, colorStr>>
    /\ ColorIdle

ColorNext ==
    \/ \E alpha \in BOOLEAN : ColorToString(alpha)
    \/ ColorFromString

ColorSpec == ColorInit /\ [][ColorNext]_vars

(***************************************************************************)
(* Properties of pc.VrManager                                              *)
(***************************************************************************)
Suffix(s, n) == SubSeq(s, n + 1, Len(s))
IsPrefix(s, t) == Len(s) <= Len(t) /\ SubSeq(t, 1, Len(s)) = s
IdsOf(s) == [i \in 1..Len(s) |-> s[i].id]

\* C1: whatever enumeration completions, connect and disconnect
\* notifications have happened, the primary display is displays[0] when
\* displays is non-empty and null when it is empty.
C1_PrimaryIsFirst ==
    display = IF Len(displays) > 0 THEN displays[1] ELSE Null

\* the primary (the first wrapper ever made) has just been disconnected
\* while another display was connected, and the primary moved to it
C1_Witness ==
    /\ last.op = "vrdisplaydisconnect"
    /\ Len(destroyCalls) > 0
    /\ destroyCalls[Len(destroyCalls)] = VrDisplay(1, last.id)
    /\ Len(displays) > 0
    /\ display = displays[1]

\* C2: registration is idempotent on the display identifier: displays
\* never holds two wrappers for one identifier (the index and the list hold
\* the same wrappers), whichever of a connect notification and the
\* enumeration reports it first; a connect for an indexed identifier changes
\* neither displays, the index nor the primary and emits nothing.
OneWrapperPerId ==
    /\ \A i, j \in 1..Len(displays) : displays[i].id = displays[j].id => i = j
    /\ \A id \in Ids : index[id] # Null =>
           index[id].id = id /\ \E i \in 1..Len(displays) : displays[i] = index[id]
    /\ \A i \in 1..Len(displays) : index[displays[i].id] = displays[i]

ConnectIndexedIsNoop ==
    /\ (last'.op = "vrdisplayconnect" /\ index[last'.id] # Null)
          => UNCHANGED <<index, displays, display, fired, destroyCalls, nextWid>>
    /\ last'.op = "resolved" =>
          \A i \in 1..Len(last'.list) :
              index[last'.list[i]] # Null => index'[last'.list[i]] = index[last'.list[i]]

C2_IdempotentRegistration == []OneWrapperPerId /\ [][ConnectIndexedIsNoop]_vars

\* display 2 was connected by a notification while the enumeration was
\* pending, and the enumeration then reported displays 1 and 2
C2_Witness ==
    /\ last.op = "resolved"
    /\ last.list = <<1, 2>>
    /\ IdsOf(displays) = <<2, 1>>

\* C3: a disconnect notification delivered for an indexed identifier
\* destroys that wrapper, removes it from the index and from displays (the
\* others keep their order) and emits one displaydisconnect carrying it; no
\* other step destroys a wrapper, and no wrapper is destroyed twice.
DisconnectIndexed ==
    last'.op = "vrdisplaydisconnect" /\ attached /\ index[last'.id] # Null

DisconnectReleases ==
    /\ DisconnectIndexed =>
          LET d == index[last'.id]
          IN /\ destroyCalls' = Append(destroyCalls, d)
             /\ index' = [index EXCEPT ![last'.id] = Null]
             /\ displays' = SelectSeq(displays, LAMBDA w : w # d)
             /\ Len(fired') = Len(fired) + 1
             /\ IsPrefix(fired, fired')
             /\ fired'[Len(fired')].name = "displaydisconnect"
             /\ fired'[Len(fired')].arg = DisplayArg(d)
    /\ destroyCalls' # destroyCalls => DisconnectIndexed

DestroyedAtMostOnce ==
    \A i, j \in 1..Len(destroyCalls) : destroyCalls[i] = destroyCalls[j] => i = j

C3_DisconnectDestroysOnce == []DestroyedAtMostOnce /\ [][DisconnectReleases]_vars

\* the middle one of three displays has just been disconnected
C3_Witness ==
    /\ last.op = "vrdisplaydisconnect"
    /\ Len(displays) = 2
    /\ Len(destroyCalls) = 1
    /\ displays[1].wid < destroyCalls[1].wid
    /\ destroyCalls[1].wid < displays[2].wid
    /\ destroyCalls[1].id = last.id

\* C4: a disconnect notification for an identifier that is not indexed
\* changes neither displays, the index nor the primary, destroys nothing and
\* emits nothing.
DisconnectUnknownIsNoop ==
    (last'.op = "vrdisplaydisconnect" /\ index[last'.id] = Null)
        => UNCHANGED <<index, displays, display, destroyCalls, fired>>

C4_DisconnectUnknownNoop == [][DisconnectUnknownIsNoop]_vars

\* a display was disconnected, another one connected, and the disconnect of
\* the first was delivered again
C4_Witness ==
    /\ last.op = "vrdisplaydisconnect"
    /\ attached
    /\ index[last.id] = Null
    /\ \E k \in 1..Len(destroyCalls) : destroyCalls[k].id = last.id
    /\ Len(fired) > 0
    /\ fired[Len(fired)].name = "displayconnect"
    /\ Len(displays) > 0

\* C5: when the enumeration resolves, every reported display that is not
\* indexed gets a wrapper and a displayconnect, in the reported order, and
\* only then ready is emitted, once, carrying displays: the displays
\* registered earlier and still connected, followed by the new ones.
EnumerationRegistersThenReady ==
    last'.op = "resolved" =>
        LET list == last'.list
            new == Suffix(fired', Len(fired))
            fresh == SelectSeq(list, LAMBDA id : index[id] = Null)
        IN /\ IsPrefix(fired, fired')
           /\ Len(new) = Len(fresh) + 1
           /\ new[Len(new)].name = "ready"
           /\ new[Len(new)].arg = ListArg(displays')
           /\ \A k \in 1..Len(fresh) :
                 /\ new[k].name = "displayconnect"
                 /\ new[k].arg = DisplayArg(displays'[Len(displays) + k])
                 /\ displays'[Len(displays) + k].id = fresh[k]
           /\ Len(displays') = Len(displays) + Len(fresh)
           /\ IsPrefix(displays, displays')
           /\ \A i \in 1..Len(list) :
                 \E j \in 1..Len(displays') : displays'[j].id = list[i]

ReadyOnce ==
    Cardinality({i \in 1..Len(fired) : fired[i].name = "ready"})
        = IF enum = "resolved" THEN 1 ELSE 0

C5_EnumerationThenReady == []ReadyOnce /\ [][EnumerationRegistersThenReady]_vars

\* display 1 was connected by a notification, then the enumeration reported
\* displays 2 and 1: ready carries 1 then 2
C5_Witness ==
    /\ last.op = "resolved"
    /\ last.list = <<2, 1>>
    /\ IdsOf(displays) = <<1, 2>>
    /\ fired[Len(fired)] = [name |-> "ready", arg |-> ListArg(displays),
                            heard |-> "ready" \in listeners]

\* C6: when navigator.getVRDisplays is missing, the constructor returns,
\* a caller that subscribed to `error` receives the error, ready is never
\* emitted and the registry stays empty.
C6_ErrorReachesSubscriber ==
    (pc = "constructed" /\ ~supported) =>
        /\ \A i \in 1..Len(fired) : fired[i].name # "ready"
        /\ Len(displays) = 0
        /\ "error" \in listeners =>
              \E i \in 1..Len(fired) : fired[i].name = "error" /\ fired[i].heard

\* C7: destroy() removes the window listeners and changes nothing else;
\* afterwards connect and disconnect notifications change neither the
\* registry nor the emitted events, and the listeners stay removed.
DestroyOnlyDetaches ==
    /\ last'.op = "destroy" =>
          /\ ~attached'
          /\ UNCHANGED <<index, displays, display, destroyCalls, fired, nextWid>>
    /\ (pc = "constructed" /\ ~attached) => ~attached'
    /\ (pc = "constructed" /\ ~attached
            /\ last'.op \in {"vrdisplayconnect", "vrdisplaydisconnect"})
          => UNCHANGED <<index, displays, display, destroyCalls, fired, nextWid>>

C7_DestroyOnlyDetaches == [][DestroyOnlyDetaches]_vars

\* after destroy(), the platform reported the disconnect of a tracked
\* display and the connect of an untracked one; both are still as they were
C7_Witness ==
    /\ pc = "constructed"
    /\ ~attached
    /\ last.op = "vrdisplaydisconnect"
    /\ index[last.id] # Null
    /\ Len(destroyCalls) = 0
    /\ \E id \in Ids : index[id] = Null


\* C11: destroy() does not cancel the pending enumeration: when the
\* enumeration resolves after destroy(), every reported display that is not
\* indexed still gets a wrapper, appended to displays and indexed, the
\* primary is set if there was none, and displayconnect (one per new
\* wrapper) and ready are emitted.
ResolvedAfterDestroy ==
    (last'.op = "resolved" /\ pc = "constructed" /\ ~attached) =>
        LET fresh == SelectSeq(last'.list, LAMBDA id : index[id] = Null)
            emitted == Suffix(fired', Len(fired))
        IN /\ Len(displays') = Len(displays) + Len(fresh)
           /\ \A k \in 1..Len(fresh) :
                 LET d == displays'[Len(displays) + k]
                 IN /\ d.id = fresh[k]
                    /\ d.wid >= nextWid
                    /\ index'[fresh[k]] = d
                    /\ \E n \in 1..Len(emitted) :
                          /\ emitted[n].name = "displayconnect"
                          /\ emitted[n].arg.display = d
           /\ (display = Null /\ Len(fresh) > 0) => display' = displays'[1]
           /\ display # Null => display' = display
           /\ Len(emitted) > 0
           /\ emitted[Len(emitted)].name = "ready"
           /\ ~attached'

C11_DestroyKeepsEnumeration == [][ResolvedAfterDestroy]_vars

\* destroy() was called before any notification and before the enumeration
\* resolved; the enumeration then filled the empty registry
C11_Witness ==
    /\ pc = "constructed"
    /\ ~attached
    /\ last.op = "resolved"
    /\ notified = 0
    /\ Len(displays) = 2
    /\ display = displays[1]
    /\ fired[Len(fired)].name = "ready"

(***************************************************************************)
(* Properties of CurveSet                                                  *)
(***************************************************************************)

\* C8: get(index) returns the curve at position index when
\* 0 <= index < curve count, and fails with an IndexError for any other
\* index instead of returning an invalid value.
C8_GetChecksRange ==
    curveOp.op = "get" =>
        IF 0 <= curveOp.arg /\ curveOp.arg < Len(curves)
        THEN curveResult = Returned(curves[curveOp.arg + 1])
        ELSE curveResult.kind = "IndexError"

\* C9: quantize(p), with P = max(p, 2) and N curves, returns P * N entries;
\* entry i * N + c is a sample of curve c; row 0 is sampled at time 0 and
\* row P - 1 at time 1.
C9_QuantizeTable ==
    curveOp.op = "quantize" =>
        LET P == Max(curveOp.arg, 2)
            N == Len(curves)
            table == curveResult.values
        IN /\ Len(table) = P * N
           /\ \A i \in 0..(P - 1) : \A c \in 0..(N - 1) :
                 /\ table[i * N + c + 1].of = curves[c + 1]
                 /\ i = 0 => table[i * N + c + 1].time = Zero
                 /\ i = P - 1 => table[i * N + c + 1].time = One


(***************************************************************************)
(* Properties of Color                                                     *)
(***************************************************************************)

\* C10: for a color with channels in [0, 1], toString(true) is '#' and
\* exactly 8 lowercase hex digits, the last two being round(a * 255)
\* zero-padded, and fromString of that string gives the channels
\* round(channel * 255) / 255.
C10_ToStringRoundTrip ==
    /\ colorPc \in {"toStringAlpha", "fromStringAlpha"} =>
          /\ Len(colorStr) = 9
          /\ colorStr[1] = "#"
          /\ \A k \in 2..Len(colorStr) : IsHexDigit(colorStr[k])
          /\ 16 * DigitValue(colorStr[8]) + DigitValue(colorStr[9]) = round255(color[4])
    /\ colorPc = "fromStringAlpha" =>
          colorBack = [k \in 1..4 |-> round255(color[k])]

====
